---- MODULE Spec2Model ----
(***************************************************************************)
(* A model of nsq_top.py: the polling loop of main() and the functions it  *)
(* calls (get_nsqd_nodes, get_all_stats, process_stats, get_sparkline,     *)
(* draw_ui).  JSON objects are records whose DOMAIN is the set of keys     *)
(* present; Python's None is the empty set and a present value v is {v}.   *)
(***************************************************************************)
EXTENDS Integers, Sequences, FiniteSets, TLC

\* ------------------------------------------------------------ constants
SPARKLINE_LENGTH == 60
NumSparklineChars == 8
RowsReserved == 12
SecondsPerMinute == 60

\* ------------------------------------------------------------ bounds
\* cycles explored when the environment answers anything it can
MaxCycles == 2
\* cycles explored under the steady schedule (beyond SPARKLINE_LENGTH)
LongRunCycles == 62

\* ------------------------------------------------------------ helpers
None == {}
Some(v) == {v}
The(o) == CHOOSE v \in o : TRUE
EmptyObj == [f \in {} |-> 0]
Has(obj, f) == f \in DOMAIN obj
\* dict.get(f, default)
Get(obj, f, default) == IF Has(obj, f) THEN obj[f] ELSE default
\* dict.get(f): {value} when present, None when absent
Opt(obj, f) == IF Has(obj, f) THEN Some(obj[f]) ELSE None
Max(a, b) == IF a >= b THEN a ELSE b
Min(a, b) == IF a <= b THEN a ELSE b
Abs(a) == IF a < 0 THEN -a ELSE a

RECURSIVE Gcd(_, _)
Gcd(a, b) == IF b = 0 THEN a ELSE Gcd(b, a % b)

\* The exact quotient n / d (d # 0) in lowest terms with a positive
\* denominator: the value of Python's true division for the intervals and
\* counts of this model, where the float result is exact.
Quotient(n, d) ==
    LET g == Gcd(Abs(n), Abs(d))
        s == IF d < 0 THEN -1 ELSE 1
    IN  [num |-> (s * n) \div g, den |-> (s * d) \div g]
Zero == [num |-> 0, den |-> 1]
Times(q, k) == Quotient(q.num * k, q.den)
IsPositive(q) == q.num > 0
IsNegative(q) == q.num < 0

\* ------------------------------------------------------------ responses
\* What an HTTP GET can come back with.  conn_error and http_error raise a
\* RequestException (requests.get / raise_for_status), not_json makes
\* response.json() raise ValueError, json_other is valid JSON that is not an
\* object (a list, a number, null), json_obj is a JSON object.
ConnError == [kind |-> "conn_error"]
HttpError == [kind |-> "http_error"]
NotJson == [kind |-> "not_json"]
JsonOther == [kind |-> "json_other"]
JsonObj(o) == [kind |-> "json_obj", obj |-> o]
Failed(resp) == resp.kind \in {"conn_error", "http_error", "not_json"}

\* ------------------------------------------------------------ get_nsqd_nodes
\* errors.append(...) of lines 34 and 36: one message per failing address
ErrorMessage(url, resp) == [url |-> url, cause |-> resp.kind]

\* The loop of lines 27-36 over lookupd_urls[1..n]; responses[i] is the
\* answer of lookupd_urls[i].  raised: an exception no except clause catches.
RECURSIVE QueryLookupds(_, _, _)
QueryLookupds(lookupd_urls, responses, n) ==
    IF n = 0
    THEN [raised |-> FALSE, all_producers |-> <<>>, errors |-> <<>>]
    ELSE LET acc == QueryLookupds(lookupd_urls, responses, n - 1)
             resp == responses[n]
         IN  IF acc.raised THEN acc
             ELSE IF Failed(resp)
             THEN [acc EXCEPT !.errors =
                        Append(@, ErrorMessage(lookupd_urls[n], resp))]
             ELSE IF resp.kind = "json_other"
             THEN [acc EXCEPT !.raised = TRUE]
             ELSE [acc EXCEPT !.all_producers =
                        @ \o Get(resp.obj, "producers", <<>>)]

\* key of line 45
ProducerKey(producer) ==
    <<Opt(producer, "broadcast_address"), Opt(producer, "http_port")>>

\* duplicates told apart by the whole producer object instead of the key
RECURSIVE UniqueObjects(_)
UniqueObjects(all_producers) ==
    IF all_producers = <<>> THEN <<>>
    ELSE LET n == Len(all_producers)
             front == UniqueObjects(SubSeq(all_producers, 1, n - 1))
         IN  IF \E i \in DOMAIN front : front[i] = all_producers[n]
             THEN front
             ELSE Append(front, all_producers[n])
\* lines 42-48: keep the first producer of every key
RECURSIVE Unique(_)
Unique(all_producers) ==
    IF all_producers = <<>> THEN <<>>
    ELSE LET n == Len(all_producers)
             front == Unique(SubSeq(all_producers, 1, n - 1))
             producer == all_producers[n]
         IN  IF \E i \in DOMAIN front :
                    ProducerKey(front[i]) = ProducerKey(producer)
             THEN front
             ELSE Append(front, producer)

\* The result of get_nsqd_nodes: raised, or the error dict of line 39, or
\* the list of line 50.
get_nsqd_nodes(lookupd_urls, responses) ==
    LET q == QueryLookupds(lookupd_urls, responses, Len(lookupd_urls))
    IN  IF q.raised THEN [raised |-> TRUE]
        ELSE IF q.all_producers = <<>> /\ q.errors # <<>>
        THEN [raised |-> FALSE, is_error |-> TRUE, error |-> q.errors]
        ELSE [raised |-> FALSE, is_error |-> FALSE,
              nodes |-> Unique(q.all_producers)]

\* ------------------------------------------------------------ get_all_stats
\* The loop of lines 57-68 over nodes[1..n]; responses[i] is the answer of
\* the broker nodes[i].  Line 58 reads both fields of the producer before
\* the try block; line 65 calls .get on whatever the JSON body is.
RECURSIVE FetchStats(_, _, _)
FetchStats(nodes, responses, n) ==
    IF n = 0
    THEN [raised |-> FALSE, all_stats |-> <<>>]
    ELSE LET acc == FetchStats(nodes, responses, n - 1)
             resp == responses[n]
         IN  IF acc.raised THEN acc
             ELSE IF ~(Has(nodes[n], "broadcast_address")
                       /\ Has(nodes[n], "http_port"))
             THEN [acc EXCEPT !.raised = TRUE]
             ELSE IF Failed(resp) THEN acc
             ELSE IF resp.kind = "json_other"
             THEN [acc EXCEPT !.raised = TRUE]
             ELSE [acc EXCEPT !.all_stats =
                        Append(@, Get(resp.obj, "data", resp.obj))]

\* the loop with `break` where line 68 has `continue`
RECURSIVE FetchStatsUntilFailure(_, _, _)
FetchStatsUntilFailure(nodes, responses, n) ==
    IF n = 0 THEN <<>>
    ELSE IF \E i \in 1..n : Failed(responses[i])
    THEN FetchStatsUntilFailure(nodes, responses, n - 1)
    ELSE Append(FetchStatsUntilFailure(nodes, responses, n - 1),
                Get(responses[n].obj, "data", responses[n].obj))
get_all_stats_break(nodes, responses) ==
    IF FetchStats(nodes, responses, Len(nodes)).raised
    THEN [raised |-> TRUE]
    ELSE [raised |-> FALSE,
          all_stats |-> FetchStatsUntilFailure(nodes, responses, Len(nodes))]
get_all_stats(nodes, responses) == FetchStats(nodes, responses, Len(nodes))

\* ------------------------------------------------------------ process_stats
\* channel_key of line 81 and the dict key of line 302
ChannelKey(topic_name, channel_name) == topic_name \o "/" \o channel_name

\* The (topic, channel) pairs the loops of lines 78-80 visit, in order.
RECURSIVE ChannelsOf(_, _)
ChannelsOf(topic, n) ==
    IF n = 0 THEN <<>>
    ELSE Append(ChannelsOf(topic, n - 1),
                [topic |-> topic, channel |-> Get(topic, "channels", <<>>)[n]])
RECURSIVE TopicsOf(_, _)
TopicsOf(stats, n) ==
    IF n = 0 THEN <<>>
    ELSE LET topic == Get(stats, "topics", <<>>)[n]
         IN  TopicsOf(stats, n - 1)
               \o ChannelsOf(topic, Len(Get(topic, "channels", <<>>)))
RECURSIVE Contributions(_)
Contributions(nsqd_stats) ==
    IF nsqd_stats = <<>> THEN <<>>
    ELSE LET n == Len(nsqd_stats)
             stats == nsqd_stats[n]
         IN  Contributions(SubSeq(nsqd_stats, 1, n - 1))
               \o TopicsOf(stats, Len(Get(stats, "topics", <<>>)))

\* The subscripts of lines 81-95 raise KeyError when the key is absent.
WellFormed(c) ==
    /\ Has(c.topic, "topic_name")
    /\ Has(c.channel, "channel_name")
    /\ Has(c.channel, "depth")
    /\ Has(c.channel, "backend_depth")
    /\ Has(c.channel, "in_flight_count")

KeyOf(c) == ChannelKey(c.topic.topic_name, c.channel.channel_name)
Index(channel_data, key) ==
    CHOOSE i \in DOMAIN channel_data : channel_data[i].key = key

\* The entry a channel key gets on first sight, lines 83-89.
NewEntry(c) ==
    [topic |-> c.topic.topic_name,
     channel |-> c.channel.channel_name,
     depth |-> 0,
     in_flight_count |-> 0,
     message_count |-> Get(c.channel, "message_count", 0)]

\* The sums of lines 92-94.
AddToNoBackend(value, c) ==
    [value EXCEPT
       !.depth = @ + c.channel.depth,
       !.in_flight_count = @ + c.channel.in_flight_count,
       !.message_count = @ + Get(c.channel, "message_count", 0)]
AddTo(value, c) ==
    [value EXCEPT
       !.depth = @ + c.channel.depth + c.channel.backend_depth,
       !.in_flight_count = @ + c.channel.in_flight_count,
       !.message_count = @ + Get(c.channel, "message_count", 0)]

\* One pass of the loop body, lines 81-94.  channel_data is the dict in
\* insertion order: a sequence of [key, value].
Accumulate(channel_data, c) ==
    LET key == KeyOf(c)
        seen == \E i \in DOMAIN channel_data : channel_data[i].key = key
        data == IF seen THEN channel_data
                ELSE Append(channel_data, [key |-> key, value |-> NewEntry(c)])
        i == Index(data, key)
    IN  [data EXCEPT ![i].value = AddTo(@, c)]

RECURSIVE Aggregate(_, _)
Aggregate(contributions, n) ==
    IF n = 0 THEN <<>>
    ELSE Accumulate(Aggregate(contributions, n - 1), contributions[n])

\* the total assigned where line 95 adds
SumInFlightLast(contributions, n) ==
    IF n = 0 THEN 0
    ELSE contributions[n].channel.in_flight_count
\* total_in_flight of lines 76 and 95
RECURSIVE SumInFlight(_, _)
SumInFlight(contributions, n) ==
    IF n = 0 THEN 0
    ELSE SumInFlight(contributions, n - 1)
           + contributions[n].channel.in_flight_count

\* `if previous_stats:` of line 98: neither None nor an empty dict
Truthy(previous_stats) ==
    previous_stats # None /\ DOMAIN The(previous_stats) # {}

\* line 101
PreviousCountFromZero(previous_stats, key, current_count) ==
    IF key \in DOMAIN The(previous_stats)
    THEN Get(The(previous_stats)[key], "message_count", 0)
    ELSE 0
PreviousCount(previous_stats, key, current_count) ==
    IF key \in DOMAIN The(previous_stats)
    THEN Get(The(previous_stats)[key], "message_count", current_count)
    ELSE current_count

\* line 103
MessagesPerSecondNoClamp(current_count, previous_count, interval_seconds) ==
    Quotient(current_count - previous_count, interval_seconds)
MessagesPerSecond(current_count, previous_count, interval_seconds) ==
    Quotient(Max(0, current_count - previous_count), interval_seconds)

\* lines 98-110 for one entry
WithRates(entry, previous_stats, interval_seconds) ==
    LET current_count == entry.value.message_count
        per_second ==
            IF Truthy(previous_stats)
            THEN MessagesPerSecond(
                     current_count,
                     PreviousCount(previous_stats, entry.key, current_count),
                     interval_seconds)
            ELSE Zero
    IN  [topic |-> entry.value.topic,
         channel |-> entry.value.channel,
         depth |-> entry.value.depth,
         in_flight_count |-> entry.value.in_flight_count,
         message_count |-> current_count,
         rate_per_second |-> per_second,
         rate_per_minute |-> Times(per_second, SecondsPerMinute)]

\* a descending sort that puts the later of two equal depths first
RECURSIVE SortedTiesReversed(_)
SortedTiesReversed(values) ==
    IF values = <<>> THEN <<>>
    ELSE LET n == Len(values)
             front == SortedTiesReversed(SubSeq(values, 1, n - 1))
             v == values[n]
             k == Cardinality({i \in DOMAIN front : front[i].depth > v.depth})
         IN  SubSeq(front, 1, k) \o <<v>> \o SubSeq(front, k + 1, n - 1)
\* sorted(..., key=depth, reverse=True) of line 113: a stable sort, entries
\* of equal depth keep their insertion order.
RECURSIVE SortedByDepth(_)
SortedByDepth(values) ==
    IF values = <<>> THEN <<>>
    ELSE LET n == Len(values)
             front == SortedByDepth(SubSeq(values, 1, n - 1))
             v == values[n]
             k == Cardinality({i \in DOMAIN front : front[i].depth >= v.depth})
         IN  SubSeq(front, 1, k) \o <<v>> \o SubSeq(front, k + 1, n - 1)

\* process_stats: raised on a KeyError of lines 81-95 or a
\* ZeroDivisionError of line 103, else the pair of line 114.
process_stats(nsqd_stats, previous_stats, interval_seconds) ==
    LET contributions == Contributions(nsqd_stats)
    IN  IF \E i \in DOMAIN contributions : ~WellFormed(contributions[i])
        THEN [raised |-> TRUE]
        ELSE LET channel_data == Aggregate(contributions, Len(contributions))
             IN  IF /\ Truthy(previous_stats)
                    /\ channel_data # <<>>
                    /\ interval_seconds = 0
                 THEN [raised |-> TRUE]
                 ELSE [raised |-> FALSE,
                       sorted_channels |->
                           SortedByDepth(
                               [i \in DOMAIN channel_data |->
                                   WithRates(channel_data[i], previous_stats,
                                             interval_seconds)]),
                       total_in_flight |->
                           SumInFlight(contributions, Len(contributions))]

\* ------------------------------------------------------------ get_sparkline
\* int(x) of line 125 for the quotient n / d, d > 0: truncation towards zero
Truncate(n, d) == IF n >= 0 THEN n \div d ELSE -((-n) \div d)

RECURSIVE MaxOf(_)
MaxOf(history) ==
    IF Len(history) = 1 THEN history[1]
    ELSE Max(MaxOf(SubSeq(history, 1, Len(history) - 1)),
             history[Len(history)])

\* scaled by len(SPARKLINE_CHARS) where line 125 has len(SPARKLINE_CHARS) - 1
get_sparkline_by_len(history) ==
    IF history = <<>> THEN <<>>
    ELSE LET max_val == IF MaxOf(history) > 0 THEN MaxOf(history) ELSE 1
         IN  [i \in DOMAIN history |->
                 Truncate(history[i] * NumSparklineChars, max_val)]
\* The indices into SPARKLINE_CHARS of the glyphs of line 126, one per sample.
get_sparkline(history) ==
    IF history = <<>> THEN <<>>
    ELSE LET max_val == IF MaxOf(history) > 0 THEN MaxOf(history) ELSE 1
         IN  [i \in DOMAIN history |->
                 Truncate(history[i] * (NumSparklineChars - 1), max_val)]

\* ------------------------------------------------------------ draw_ui
\* the tiers of lines 192-197
DEPTH_WARN_THRESHOLD == 100
DEPTH_CRIT_THRESHOLD == 1000
Severity(depth) ==
    IF depth >= DEPTH_CRIT_THRESHOLD THEN "critical"
    ELSE IF depth >= DEPTH_WARN_THRESHOLD THEN "warning"
    ELSE "normal"

\* channels[:max_rows] of line 179; a negative max_rows counts from the end
SliceTo(channels, max_rows) ==
    IF max_rows >= 0
    THEN SubSeq(channels, 1, Min(max_rows, Len(channels)))
    ELSE SubSeq(channels, 1, Max(0, Len(channels) + max_rows))

\* One printed table row, lines 180-212; a rate that is not positive is
\* printed as "--" (None here).  The width of the name column and the
\* truncation of long names are left out.
Row(channel) ==
    [topic_channel |-> ChannelKey(channel.topic, channel.channel),
     depth |-> channel.depth,
     severity |-> Severity(channel.depth),
     in_flight |-> channel.in_flight_count,
     rate_sec |-> IF IsPositive(channel.rate_per_second)
                  THEN Some(channel.rate_per_second) ELSE None,
     rate_min |-> IF IsPositive(channel.rate_per_minute)
                  THEN Some(channel.rate_per_minute) ELSE None]

\* What draw_ui prints after term.clear: the banner of lines 142-145 and
\* nothing else, or the summary, the rows and the "... and N more" line.
draw_ui(height, channels, total, inflight_history, error) ==
    IF error # None
    THEN [banner |-> error, summary |-> None, rows |-> <<>>, more |-> None]
    ELSE LET max_rows == height - RowsReserved
             shown == SliceTo(channels, max_rows)
         IN  [banner |-> None,
              summary |-> Some([total_in_flight |-> total,
                                channels |-> Len(channels),
                                trend |-> get_sparkline(inflight_history)]),
              rows |-> [i \in DOMAIN shown |-> Row(shown[i])],
              more |-> IF Len(channels) > max_rows
                       THEN Some(Len(channels) - max_rows) ELSE None]

\* ------------------------------------------------------------ environment
\* The directory services and brokers are outside the program: every answer
\* is an input.  Under world "any" each request gets any answer of the sets
\* below; under world "steady" the answers follow one fixed schedule, which
\* lets the loop run past SPARKLINE_LENGTH cycles.
Worlds == {"any", "steady"}
\* args.interval: argparse's type=int accepts every integer
Intervals == {-1, 0, 1, 2}
\* term.height at the time of a draw
Heights == {11, 12, 14}
SteadyHeight == 14
FailEvery == 5
DownEvery == 7

lookupd_urls == <<"http://l1", "http://l2">>

P1 == [broadcast_address |-> "h1", http_port |-> 4151]
P1b == [broadcast_address |-> "h1", http_port |-> 4151, hostname |-> "x"]
P2 == [broadcast_address |-> "h2", http_port |-> 4151]
PNoAddress == [http_port |-> 4151]
ProducerLists == {<<>>, <<P1>>, <<P1, P2>>, <<P2, P1b>>, <<PNoAddress>>}
LookupdResponses ==
    {ConnError, NotJson, JsonOther, JsonObj(EmptyObj)}
      \cup {JsonObj([producers |-> pl]) : pl \in ProducerLists}

Topic(name, chans) == [topic_name |-> name, channels |-> chans]
Chan(name, depth, backend, inflight, count) ==
    [channel_name |-> name, depth |-> depth, backend_depth |-> backend,
     in_flight_count |-> inflight, message_count |-> count]
ChanNoCount(name, depth, backend, inflight) ==
    [channel_name |-> name, depth |-> depth, backend_depth |-> backend,
     in_flight_count |-> inflight]
DocA == [topics |-> <<Topic("a", <<Chan("c", 1, 1, 1, 1)>>)>>]
DocB == [topics |-> <<Topic("a", <<Chan("c", 0, 2, 1, 2)>>),
                      Topic("a/b", <<Chan("c", 2, 0, 0, 1)>>)>>]
DocC == [topics |-> <<Topic("a", <<Chan("b/c", 0, 0, 0, 3),
                                   ChanNoCount("c", 3, 0, 0)>>)>>]
DocNoDepth == [topics |-> <<Topic("a", <<[channel_name |-> "c"]>>)>>]
Docs == {DocA, DocB, DocC, DocNoDepth, EmptyObj, [data |-> DocA]}
BrokerResponses ==
    {ConnError, NotJson, JsonOther} \cup {JsonObj(d) : d \in Docs}

SteadyDoc(n) == [topics |-> <<Topic("a", <<Chan("c", 0, 0, n % 3, n)>>)>>]

\* the answers the directory services give in cycle n, one per address
LookupdAnswers(w, n) ==
    IF w = "any" THEN [DOMAIN lookupd_urls -> LookupdResponses]
    ELSE IF n % FailEvery = 0 THEN {<<ConnError, HttpError>>}
    ELSE {<<JsonObj([producers |-> <<P1>>]), ConnError>>}
\* The nodes get_all_stats sends a request to: those up to the first one
\* line 58 raises on.
Asked(node_list) ==
    {i \in DOMAIN node_list :
        \A j \in 1..i : /\ Has(node_list[j], "broadcast_address")
                        /\ Has(node_list[j], "http_port")}
\* the answers the brokers of node_list give in cycle n, one per node (a
\* node that is never asked gives none: ConnError stands for it)
BrokerAnswers(w, n, node_list) ==
    IF w = "any"
    THEN {[i \in DOMAIN node_list |->
              IF i \in Asked(node_list) THEN f[i] ELSE ConnError] :
            f \in [Asked(node_list) -> BrokerResponses]}
    ELSE {[i \in DOMAIN node_list |->
              IF n % DownEvery = 0 THEN HttpError
              ELSE JsonObj(SteadyDoc(n))]}
TermHeights(w) == IF w = "any" THEN Heights ELSE {SteadyHeight}
CycleBound(w) == IF w = "any" THEN MaxCycles ELSE LongRunCycles

\* ------------------------------------------------------------ main
VARIABLES
    world,                  \* how the environment answers
    interval,               \* args.interval, line 262
    pc,                     \* the statement of the loop body to run next
    cycles,                 \* iterations of `while True` started, line 289
    error_message,          \* lines 290, 296
    channels,               \* lines 291, 299
    total_in_flight,        \* lines 292, 299
    nodes,                  \* line 294
    stats,                  \* line 298
    inflight_history,       \* lines 282, 305-307
    previous_channel_stats, \* lines 283, 302
    screen,                 \* what the last draw_ui printed, line 309
    term_mode,              \* "fullscreen" inside the with block of line 288
    exit_code,              \* the exit status once the process has ended
    all_totals              \* every value passed to line 305, in order

vars == <<world, interval, pc, cycles, error_message, channels,
          total_in_flight, nodes, stats, inflight_history,
          previous_channel_stats, screen, term_mode, exit_code, all_totals>>

locals == <<error_message, channels, total_in_flight, nodes, stats,
            inflight_history, previous_channel_stats, screen, all_totals>>

Running == pc \notin {"crashed", "exited"}

\* lines 281-288: the state on entering the loop
Init ==
    /\ world \in Worlds
    /\ interval \in Intervals
    /\ pc = "resolve"
    /\ cycles = 0
    /\ error_message = None
    /\ channels = <<>>
    /\ total_in_flight = 0
    /\ nodes = None
    /\ stats = None
    /\ inflight_history = <<>>
    /\ previous_channel_stats = None
    /\ screen = None
    /\ term_mode = "fullscreen"
    /\ exit_code = None
    /\ all_totals = <<>>

\* An exception other than KeyboardInterrupt leaves the with block of line
\* 288 (the terminal is restored) and is not caught at line 317.
Raise ==
    /\ pc' = "crashed"
    /\ term_mode' = "normal"
    /\ exit_code' = Some(1)

\* lines 290-296
Resolve ==
    /\ pc = "resolve"
    /\ cycles < CycleBound(world)
    /\ cycles' = cycles + 1
    /\ channels' = <<>>
    /\ total_in_flight' = 0
    /\ \E responses \in LookupdAnswers(world, cycles + 1) :
         LET r == get_nsqd_nodes(lookupd_urls, responses)
         IN  IF r.raised
             THEN /\ Raise
                  /\ error_message' = None
                  /\ UNCHANGED nodes
             ELSE /\ nodes' = Some(r)
                  /\ error_message' = IF r.is_error THEN Some(r.error) ELSE None
                  /\ pc' = IF r.is_error THEN "history" ELSE "fetch"
                  /\ UNCHANGED <<term_mode, exit_code>>
    /\ UNCHANGED <<world, interval, stats, inflight_history,
                   previous_channel_stats, screen, all_totals>>

\* line 298
Fetch ==
    /\ pc = "fetch"
    /\ \E responses \in BrokerAnswers(world, cycles, The(nodes).nodes) :
         LET r == get_all_stats(The(nodes).nodes, responses)
         IN  IF r.raised
             THEN /\ Raise
                  /\ UNCHANGED stats
             ELSE /\ stats' = Some(r.all_stats)
                  /\ pc' = "process"
                  /\ UNCHANGED <<term_mode, exit_code>>
    /\ UNCHANGED <<world, interval, cycles, error_message, channels,
                   total_in_flight, nodes, inflight_history,
                   previous_channel_stats, screen, all_totals>>

\* line 299
Process ==
    /\ pc = "process"
    /\ LET r == process_stats(The(stats), previous_channel_stats, interval)
       IN  IF r.raised
           THEN /\ Raise
                /\ UNCHANGED <<channels, total_in_flight>>
           ELSE /\ channels' = r.sorted_channels
                /\ total_in_flight' = r.total_in_flight
                /\ pc' = "store"
                /\ UNCHANGED <<term_mode, exit_code>>
    /\ UNCHANGED <<world, interval, cycles, error_message, nodes, stats,
                   inflight_history, previous_channel_stats, screen,
                   all_totals>>

\* an update of the old mapping in place of a new one
SnapshotKeepOld(chs) ==
    LET key(i) == ChannelKey(chs[i].topic, chs[i].channel)
        keys == {key(i) : i \in DOMAIN chs}
        old == IF previous_channel_stats = None THEN EmptyObj
               ELSE The(previous_channel_stats)
        last(k) == CHOOSE i \in DOMAIN chs :
                      /\ key(i) = k
                      /\ \A j \in DOMAIN chs : key(j) = k => j <= i
    IN  [k \in keys \cup DOMAIN old |->
            IF k \in keys THEN chs[last(k)] ELSE old[k]]
\* The dict comprehension of line 302: the last channel of a key wins.
Snapshot(chs) ==
    LET key(i) == ChannelKey(chs[i].topic, chs[i].channel)
        keys == {key(i) : i \in DOMAIN chs}
        last(k) == CHOOSE i \in DOMAIN chs :
                      /\ key(i) = k
                      /\ \A j \in DOMAIN chs : key(j) = k => j <= i
    IN  [k \in keys |-> chs[last(k)]]

\* line 302
Store ==
    /\ pc = "store"
    /\ previous_channel_stats' = Some(Snapshot(channels))
    /\ pc' = "history"
    /\ UNCHANGED <<world, interval, cycles, error_message, channels,
                   total_in_flight, nodes, stats, inflight_history, screen,
                   term_mode, exit_code, all_totals>>

\* lines 305-307: append, then pop(0) when longer than SPARKLINE_LENGTH
PopLast(history) == SubSeq(history, 1, Len(history) - 1)
Pop0(history) == Tail(history)
Appended(history, total) ==
    LET h == Append(history, total)
    IN  IF Len(h) > SPARKLINE_LENGTH THEN Pop0(h) ELSE h

UpdateHistory ==
    /\ pc = "history"
    /\ inflight_history' = Appended(inflight_history, total_in_flight)
    /\ all_totals' = Append(all_totals, total_in_flight)
    /\ pc' = "draw"
    /\ UNCHANGED <<world, interval, cycles, error_message, channels,
                   total_in_flight, nodes, stats, previous_channel_stats,
                   screen, term_mode, exit_code>>

\* line 309
Draw ==
    /\ pc = "draw"
    /\ \E height \in TermHeights(world) :
         screen' = Some(draw_ui(height, channels, total_in_flight,
                                inflight_history, error_message))
    /\ pc' = "sleep"
    /\ UNCHANGED <<world, interval, cycles, error_message, channels,
                   total_in_flight, nodes, stats, inflight_history,
                   previous_channel_stats, term_mode, exit_code, all_totals>>

\* line 311: time.sleep raises ValueError for a negative length
Sleep ==
    /\ pc = "sleep"
    /\ IF interval < 0
       THEN Raise
       ELSE /\ pc' = "resolve"
            /\ UNCHANGED <<term_mode, exit_code>>
    /\ UNCHANGED <<world, interval, cycles, locals>>

\* a KeyboardInterrupt that the handlers around the requests swallow
InterruptOutsideRequests ==
    /\ Running
    /\ pc \notin {"resolve", "fetch"}
    /\ pc' = "exited"
    /\ term_mode' = "normal"
    /\ exit_code' = Some(0)
    /\ error_message' = None
    /\ channels' = <<>>
    /\ total_in_flight' = 0
    /\ nodes' = None
    /\ stats' = None
    /\ inflight_history' = <<>>
    /\ previous_channel_stats' = None
    /\ screen' = None
    /\ all_totals' = <<>>
    /\ UNCHANGED <<world, interval, cycles>>
\* KeyboardInterrupt at any point of the loop: the with block of line 288
\* restores the terminal, lines 317-320 exit with status 0.  The frame of
\* main is gone with the exception: its locals are back to unbound.
Interrupt ==
    /\ Running
    /\ pc' = "exited"
    /\ term_mode' = "normal"
    /\ exit_code' = Some(0)
    /\ error_message' = None
    /\ channels' = <<>>
    /\ total_in_flight' = 0
    /\ nodes' = None
    /\ stats' = None
    /\ inflight_history' = <<>>
    /\ previous_channel_stats' = None
    /\ screen' = None
    /\ all_totals' = <<>>
    /\ UNCHANGED <<world, interval, cycles>>

Next ==
    \/ Resolve
    \/ Fetch
    \/ Process
    \/ Store
    \/ UpdateHistory
    \/ Draw
    \/ Sleep
    \/ Interrupt

Spec == Init /\ [][Next]_vars

\* ------------------------------------------------------------ properties
RECURSIVE SumSeq(_)
SumSeq(s) == IF s = <<>> THEN 0 ELSE Head(s) + SumSeq(Tail(s))

\* the sequences of the same documents in every order
Orderings(s) ==
    {[i \in DOMAIN s |-> s[f[i]]] : f \in Permutations(DOMAIN s)}

KeyOfChannel(ch) == ChannelKey(ch.topic, ch.channel)

\* process_stats has just returned: stats and previous_channel_stats are
\* its arguments, channels and total_in_flight its result
Processed == pc = "store"
TheContributions == Contributions(The(stats))
\* what the contributions of a key report for one field, 0 elsewhere
Reported(key, f, default) ==
    [i \in DOMAIN TheContributions |->
        IF KeyOf(TheContributions[i]) = key
        THEN Get(TheContributions[i].channel, f, default) ELSE 0]
ContributionsTo(key) ==
    {i \in DOMAIN TheContributions : KeyOf(TheContributions[i]) = key}

\* C1: process_stats gives every channel key the same depth,
\* in_flight_count and message_count, and the same total_in_flight, for
\* every order of the broker documents.
C1_OrderIndependent ==
    Processed =>
      \A other \in Orderings(The(stats)) :
        LET r == process_stats(other, previous_channel_stats, interval)
        IN  /\ ~r.raised
            /\ r.total_in_flight = total_in_flight
            /\ Len(r.sorted_channels) = Len(channels)
            /\ \A i \in DOMAIN channels :
                 \E j \in DOMAIN r.sorted_channels :
                   /\ KeyOfChannel(r.sorted_channels[j]) = KeyOfChannel(channels[i])
                   /\ r.sorted_channels[j].depth = channels[i].depth
                   /\ r.sorted_channels[j].in_flight_count
                        = channels[i].in_flight_count
                   /\ r.sorted_channels[j].message_count
                        = channels[i].message_count

\* C2: the aggregated message_count of every channel key is the sum of the
\* message_count of its contributions in this cycle, an absent one
\* counting 0.
C2_MessageCountIsSum ==
    Processed =>
      \A i \in DOMAIN channels :
        channels[i].message_count
          = SumSeq(Reported(KeyOfChannel(channels[i]), "message_count", 0))

\* C3: the aggregated depth of every channel key is the sum of
\* depth + backend_depth over its contributions, and is not negative when
\* no reported depth or backend_depth is.
C3_DepthIsSum ==
    Processed =>
      \A i \in DOMAIN channels :
        LET key == KeyOfChannel(channels[i])
        IN  /\ channels[i].depth
                 = SumSeq(Reported(key, "depth", 0))
                     + SumSeq(Reported(key, "backend_depth", 0))
            /\ (\A c \in DOMAIN TheContributions :
                    /\ TheContributions[c].channel.depth >= 0
                    /\ TheContributions[c].channel.backend_depth >= 0)
                 => channels[i].depth >= 0

\* a channel summed over two brokers, one of them with a backend depth
C3_Witness ==
    /\ Processed
    /\ \E i \in DOMAIN channels :
         /\ Cardinality(ContributionsTo(KeyOfChannel(channels[i]))) >= 2
         /\ \E c \in ContributionsTo(KeyOfChannel(channels[i])) :
              TheContributions[c].channel.backend_depth > 0
         /\ channels[i].depth >= 3

InPrevious(ch) ==
    /\ previous_channel_stats # None
    /\ KeyOfChannel(ch) \in DOMAIN The(previous_channel_stats)
PreviousOf(ch) == The(previous_channel_stats)[KeyOfChannel(ch)]

\* C4: a channel whose key is in the previous mapping gets
\* rate_per_second = max(0, current - previous) / interval and
\* rate_per_minute = 60 * rate_per_second (100 -> 130 over 2 s is 15 and
\* 900, 500 -> 10 is 0), and no channel of any cycle has a negative rate.
C4_RateFormula ==
    /\ MessagesPerSecond(130, 100, 2) = [num |-> 15, den |-> 1]
    /\ Times(MessagesPerSecond(130, 100, 2), SecondsPerMinute)
         = [num |-> 900, den |-> 1]
    /\ MessagesPerSecond(10, 500, 2) = Zero
    /\ Processed =>
         \A i \in DOMAIN channels :
           InPrevious(channels[i]) =>
             LET delta == channels[i].message_count
                            - PreviousOf(channels[i]).message_count
                 per_second == channels[i].rate_per_second
                 per_minute == channels[i].rate_per_minute
             IN  /\ per_second.num * interval
                      = Max(0, delta) * per_second.den
                 /\ per_minute.num * per_second.den
                      = SecondsPerMinute * per_second.num * per_minute.den
    /\ \A i \in DOMAIN channels :
         /\ ~IsNegative(channels[i].rate_per_second)
         /\ ~IsNegative(channels[i].rate_per_minute)

\* one channel with a positive rate and one whose counter went down
C4_Witness ==
    /\ Processed
    /\ \E i \in DOMAIN channels :
         /\ InPrevious(channels[i])
         /\ IsPositive(channels[i].rate_per_second)
    /\ \E i \in DOMAIN channels :
         /\ InPrevious(channels[i])
         /\ channels[i].message_count < PreviousOf(channels[i]).message_count

\* C5: a channel with no baseline (no previous mapping, or a key the
\* previous mapping lacks) has both rates 0 whatever its message_count.
C5_NoBaselineZeroRate ==
    Processed =>
      \A i \in DOMAIN channels :
        ~InPrevious(channels[i]) =>
          /\ channels[i].rate_per_second = Zero
          /\ channels[i].rate_per_minute = Zero

\* a later cycle with a new channel of nonzero count beside a known one
C5_Witness ==
    /\ Processed
    /\ \E i \in DOMAIN channels : InPrevious(channels[i])
    /\ \E i \in DOMAIN channels :
         /\ ~InPrevious(channels[i])
         /\ channels[i].message_count > 0

\* the cycle before this one was a resolution failure
AfterFailedCycle == screen # None /\ The(screen).banner # None

\* C6: in a cycle that resolves right after a resolution failure every
\* channel has both rates 0.
C6_NoBaselineAfterFailure ==
    (Processed /\ AfterFailedCycle) =>
      \A i \in DOMAIN channels :
        /\ channels[i].rate_per_second = Zero
        /\ channels[i].rate_per_minute = Zero

\* the last n elements of s
LastN(s, n) == SubSeq(s, Len(s) - n + 1, Len(s))

\* C7: the history never holds more than SPARKLINE_LENGTH samples, every
\* cycle (resolved or failed) appends exactly one, and the history is the
\* most recent min(n, SPARKLINE_LENGTH) totals in arrival order.
C7_HistoryWindow ==
    pc # "exited" =>
      /\ Len(inflight_history) <= SPARKLINE_LENGTH
      /\ inflight_history
           = LastN(all_totals, Min(Len(all_totals), SPARKLINE_LENGTH))
      /\ pc \in {"fetch", "process", "store", "history"}
           => Len(all_totals) = cycles - 1
      /\ pc \in {"draw", "sleep"} => Len(all_totals) = cycles
      /\ pc = "resolve" => Len(all_totals) = cycles

\* two samples have been evicted and the window starts at the third
C7_Witness ==
    /\ Len(all_totals) = SPARKLINE_LENGTH + 2
    /\ Len(inflight_history) = SPARKLINE_LENGTH
    /\ all_totals[1] # all_totals[3]
    /\ inflight_history[1] = all_totals[3]
    /\ \E i \in DOMAIN all_totals : all_totals[i] = 0 /\ i % FailEvery = 0

\* C8: get_nsqd_nodes returns the error result exactly when every address
\* failed, and the error then holds one message per failed address.
C8_ErrorIffAllFailed ==
    (nodes # None /\ pc \in {"fetch", "history"}) =>
      \A responses \in LookupdAnswers(world, cycles) :
        get_nsqd_nodes(lookupd_urls, responses) = The(nodes) =>
          LET failed == {i \in DOMAIN lookupd_urls : Failed(responses[i])}
          IN  /\ The(nodes).is_error <=> failed = DOMAIN lookupd_urls
              /\ The(nodes).is_error =>
                   /\ Len(The(nodes).error) = Cardinality(failed)
                   /\ \A i \in failed :
                        \E m \in DOMAIN The(nodes).error :
                          The(nodes).error[m].url = lookupd_urls[i]

\* the cycle under way is a resolution failure
FailedCycle == error_message # None

\* C9: in a cycle whose resolution failed nothing is fetched or
\* aggregated, a 0 is appended to the history, the display shows the
\* banner and no rows, and the loop sleeps and starts the next cycle.
C9_FailedCycleStep ==
    /\ (pc = "resolve" /\ FailedCycle') =>
         /\ pc' = "history"
         /\ channels' = <<>>
         /\ total_in_flight' = 0
         /\ UNCHANGED <<stats, previous_channel_stats>>
    /\ (FailedCycle /\ pc' # "exited") =>
         /\ pc = "history" =>
              /\ pc' = "draw"
              /\ inflight_history'[Len(inflight_history')] = 0
              /\ all_totals' = Append(all_totals, 0)
         /\ pc = "draw" =>
              /\ pc' = "sleep"
              /\ The(screen').banner = error_message
              /\ The(screen').rows = <<>>
              /\ The(screen').summary = None
         /\ pc = "sleep" => pc' = "resolve" /\ UNCHANGED cycles
C9_FailedCycle == [][C9_FailedCycleStep]_vars

\* C10: after startup no runtime error ends the loop, whatever a directory
\* service or a broker answers: the process only ends on an interrupt.
C10_OnlyInterruptEndsLoop ==
    /\ pc # "crashed"
    /\ exit_code # None => (pc = "exited" /\ exit_code = Some(0))

\* the documents of the brokers that answered, in the order of the nodes
RECURSIVE Snapshots(_)
Snapshots(responses) ==
    IF responses = <<>> THEN <<>>
    ELSE LET n == Len(responses)
             front == Snapshots(SubSeq(responses, 1, n - 1))
         IN  IF Failed(responses[n]) THEN front
             ELSE Append(front,
                         IF Has(responses[n].obj, "data")
                         THEN responses[n].obj.data ELSE responses[n].obj)

\* C11: when resolution succeeds and any subset of the brokers fails to
\* answer, the documents aggregated are exactly those of the brokers that
\* answered, the others contribute nothing, and no error banner is shown.
C11_PartialFetch ==
    /\ pc = "process" =>
         \A responses \in BrokerAnswers(world, cycles, The(nodes).nodes) :
           LET r == get_all_stats(The(nodes).nodes, responses)
           IN  (~r.raised /\ r.all_stats = The(stats)) =>
                 The(stats) = Snapshots(responses)
    /\ Processed =>
         /\ \A i \in DOMAIN channels :
              ContributionsTo(KeyOfChannel(channels[i])) # {}
         /\ total_in_flight
              = SumSeq([i \in DOMAIN TheContributions |->
                          TheContributions[i].channel.in_flight_count])
    /\ pc \in {"fetch", "process", "store"} => error_message = None
    /\ (pc = "sleep" /\ error_message = None) =>
         /\ The(screen).banner = None
         /\ The(screen).summary # None
         /\ The(The(screen).summary).channels = Len(channels)

\* two brokers resolved, one of them answered
C11_Witness ==
    /\ pc = "process"
    /\ Len(The(nodes).nodes) = 2
    /\ Len(The(stats)) = 1

\* every producer the answering directory services report, in order
RECURSIVE AllReported(_)
AllReported(responses) ==
    IF responses = <<>> THEN <<>>
    ELSE LET n == Len(responses)
             front == AllReported(SubSeq(responses, 1, n - 1))
         IN  IF responses[n].kind = "json_obj"
                  /\ Has(responses[n].obj, "producers")
             THEN front \o responses[n].obj.producers
             ELSE front
\* where a (broadcast_address, http_port) pair is first reported
FirstReport(reported, key) ==
    CHOOSE k \in DOMAIN reported :
      /\ ProducerKey(reported[k]) = key
      /\ \A m \in 1..(k - 1) : ProducerKey(reported[m]) # key
\* the answers get_nsqd_nodes can have returned the current nodes from
ResolvedFrom(responses) ==
    get_nsqd_nodes(lookupd_urls, responses) = The(nodes)

\* C12: the list get_nsqd_nodes returns holds no two endpoints of the same
\* (broadcast_address, http_port), holds every pair an answering directory
\* service reported, and keeps them in first-seen order.
C12_Deduplicated ==
    pc = "fetch" =>
      LET node_list == The(nodes).nodes
      IN  /\ \A i, j \in DOMAIN node_list :
               i # j => ProducerKey(node_list[i]) # ProducerKey(node_list[j])
          /\ \A responses \in LookupdAnswers(world, cycles) :
               ResolvedFrom(responses) =>
                 LET reported == AllReported(responses)
                 IN  /\ {ProducerKey(node_list[i]) : i \in DOMAIN node_list}
                          = {ProducerKey(reported[k]) : k \in DOMAIN reported}
                     /\ \A i \in DOMAIN node_list :
                          node_list[i]
                            = reported[FirstReport(
                                  reported, ProducerKey(node_list[i]))]
                     /\ \A i, j \in DOMAIN node_list :
                          i < j =>
                            FirstReport(reported, ProducerKey(node_list[i]))
                              < FirstReport(reported,
                                            ProducerKey(node_list[j]))

\* two directory services reported the same endpoint, one copy was kept
C12_Witness ==
    /\ pc = "fetch"
    /\ Len(The(nodes).nodes) = 2
    /\ \E responses \in LookupdAnswers(world, cycles) :
         /\ ResolvedFrom(responses)
         /\ Len(AllReported(responses)) = 3
         /\ AllReported(responses)[1] # AllReported(responses)[3]

\* the number of channels the "... and N more channels" line announces
Announced(printed) == IF printed.more = None THEN 0 ELSE The(printed.more)

\* C13: for every terminal height, draw_ui prints the highest-ranked
\* channels only, never more rows than max(0, height - 12), and the rows
\* printed plus the channels announced as omitted are all the channels;
\* nothing is announced when no channel is omitted.
C13_RowsFitHeight ==
    (pc = "sleep" /\ error_message = None) =>
      \A height \in TermHeights(world) :
        LET printed == draw_ui(height, channels, total_in_flight,
                               inflight_history, error_message)
            shown == Len(printed.rows)
        IN  printed = The(screen) =>
              /\ shown <= Max(0, height - RowsReserved)
              /\ shown <= Len(channels)
              /\ \A i \in 1..shown : printed.rows[i] = Row(channels[i])
              /\ shown + Announced(printed) = Len(channels)
              /\ shown = Len(channels) => printed.more = None

\* the first contribution of a channel key in the documents of this cycle
FirstContribution(key) ==
    CHOOSE i \in ContributionsTo(key) : \A j \in ContributionsTo(key) : i <= j

\* C14: the list process_stats returns has exactly one entry for every
\* channel key of the documents, in order of depth non-increasing; entries
\* of equal depth stand in the order in which their keys first appear in
\* the documents, so the order is a function of the input alone.
C14_Ranked ==
    Processed =>
      /\ \A i, j \in DOMAIN channels :
           i # j => KeyOfChannel(channels[i]) # KeyOfChannel(channels[j])
      /\ {KeyOfChannel(channels[i]) : i \in DOMAIN channels}
           = {KeyOf(TheContributions[i]) : i \in DOMAIN TheContributions}
      /\ \A i, j \in DOMAIN channels :
           i < j =>
             /\ channels[i].depth >= channels[j].depth
             /\ channels[i].depth = channels[j].depth =>
                  FirstContribution(KeyOfChannel(channels[i]))
                    < FirstContribution(KeyOfChannel(channels[j]))

\* two channels of equal depth were ranked
C14_Witness ==
    /\ Processed
    /\ Len(channels) = 2
    /\ channels[1].depth = channels[2].depth
    /\ channels[1].depth > 0

\* C15: contributions merged into one aggregated entry all carry the
\* entry's (topic_name, channel_name), and the entry of the previous mapping
\* a channel is compared with carries the same pair, for any names,
\* including names that contain "/".
C15_KeyDoesNotCollide ==
    Processed =>
      \A i \in DOMAIN channels :
        /\ \A k \in ContributionsTo(KeyOfChannel(channels[i])) :
             /\ TheContributions[k].topic.topic_name = channels[i].topic
             /\ TheContributions[k].channel.channel_name
                  = channels[i].channel
        /\ InPrevious(channels[i]) =>
             /\ PreviousOf(channels[i]).topic = channels[i].topic
             /\ PreviousOf(channels[i]).channel = channels[i].channel

ChannelKeys == {KeyOfChannel(channels[i]) : i \in DOMAIN channels}
\* line 302 has run in this cycle
Stored == pc \in {"history", "draw", "sleep"} /\ error_message = None

\* C16: the channels process_stats returns are exactly the channel keys of
\* this cycle's broker documents, whatever the previous mapping holds, and
\* once the cycle has stored it the previous mapping holds exactly this
\* cycle's channels.
C16_NoStaleChannels ==
    /\ Processed =>
         ChannelKeys
           = {KeyOf(TheContributions[i]) : i \in DOMAIN TheContributions}
    /\ Stored =>
         /\ previous_channel_stats # None
         /\ DOMAIN The(previous_channel_stats) = ChannelKeys
         /\ \A i \in DOMAIN channels : PreviousOf(channels[i]) = channels[i]

\* a channel of the previous mapping is reported by no broker this cycle
C16_Witness ==
    /\ Processed
    /\ channels # <<>>
    /\ previous_channel_stats # None
    /\ \E key \in DOMAIN The(previous_channel_stats) :
         /\ ContributionsTo(key) = {}
         /\ key \notin ChannelKeys

MaxSample == 4
MaxHistoryLen == 3
Histories == UNION {[1..n -> 0..MaxSample] : n \in 0..MaxHistoryLen}

SparklineFits(history) ==
    LET glyphs == get_sparkline(history)
    IN  /\ Len(glyphs) = Len(history)
        /\ \A i \in DOMAIN history :
             /\ glyphs[i] \in 0..(NumSparklineChars - 1)
             /\ (\A j \in DOMAIN history : history[j] = 0) => glyphs[i] = 0
             /\ (history[i] > 0 /\ history[i] = MaxOf(history))
                  => glyphs[i] = NumSparklineChars - 1

\* C18: get_sparkline gives one glyph per sample, every glyph index is one
\* of the palette, a history of zeros gets the lowest glyph throughout, and
\* the samples equal to a positive maximum get the highest glyph.
C18_Sparkline ==
    /\ cycles = 0 => \A history \in Histories : SparklineFits(history)
    /\ pc \in {"draw", "sleep"} => SparklineFits(inflight_history)
    /\ (pc = "sleep" /\ error_message = None) =>
         The(The(screen).summary).trend = get_sparkline(inflight_history)

\* a trend with a highest glyph and a glyph in between has been printed
C18_Witness ==
    /\ pc = "sleep"
    /\ error_message = None
    /\ LET trend == The(The(screen).summary).trend
       IN  \E i, j \in DOMAIN trend :
             /\ trend[i] = NumSparklineChars - 1
             /\ trend[j] > 0
             /\ trend[j] < NumSparklineChars - 1

\* process_stats is about to run line 103: the previous mapping is not
\* empty and the loop of lines 78-95 leaves at least one channel
Divides ==
    /\ pc = "process"
    /\ Truthy(previous_channel_stats)
    /\ TheContributions # <<>>
    /\ \A i \in DOMAIN TheContributions : WellFormed(TheContributions[i])

\* C19: for every interval accepted at startup, a cycle that computes rates
\* against a non-empty previous mapping divides by a strictly positive
\* number of seconds.
C19_PositiveDivisor == Divides => interval > 0

\* C20: the total_in_flight process_stats returns is the sum of
\* in_flight_count over all contributions of the cycle and the sum of
\* in_flight_count over the returned channels, and it is the sample the
\* cycle appends to the history.
C20_TotalInFlight ==
    /\ Processed =>
         /\ total_in_flight
              = SumSeq([i \in DOMAIN TheContributions |->
                          TheContributions[i].channel.in_flight_count])
         /\ total_in_flight
              = SumSeq([i \in DOMAIN channels |->
                          channels[i].in_flight_count])
    /\ pc \in {"draw", "sleep"} =>
         /\ inflight_history # <<>>
         /\ inflight_history[Len(inflight_history)] = total_in_flight
         /\ error_message = None =>
              total_in_flight
                = SumSeq([i \in DOMAIN channels |->
                            channels[i].in_flight_count])

\* two contributions in flight were added up
C20_Witness ==
    /\ Processed
    /\ total_in_flight >= 2
    /\ \E i, j \in DOMAIN TheContributions :
         /\ i # j
         /\ TheContributions[i].channel.in_flight_count > 0
         /\ TheContributions[j].channel.in_flight_count > 0

====
